---- MODULE Spec2Model ----
(***************************************************************************)
(* Model of flatland's internal/cache package: DataSetCache, New, Import   *)
(* and the per-cell probe inferProbableTypeFromString.                     *)
(*                                                                         *)
(* A CSV field (a Go string) is a tuple of one-character strings, so that  *)
(* strconv.ParseInt and strconv.ParseFloat are modelled by what they do to *)
(* the characters of the literal.                                          *)
(***************************************************************************)
EXTENDS Integers, Sequences, FiniteSets, TLC

(***************************************************************************)
(* FieldType and its constants (iota order of the source).                 *)
(***************************************************************************)
FieldTypeUnknown == 0
FieldTypeString == 1
FieldTypeInteger == 2
FieldTypeFloat == 3

FieldType == {FieldTypeUnknown, FieldTypeString, FieldTypeInteger, FieldTypeFloat}

fieldTypeString(t) ==
    CASE t = FieldTypeString  -> "FIELD_TYPE_STRING"
      [] t = FieldTypeInteger -> "FIELD_TYPE_INTEGER"
      [] t = FieldTypeFloat   -> "FIELD_TYPE_FLOAT"
      [] OTHER                -> "FIELD_TYPE_UNKNOWN"

(***************************************************************************)
(* Characters.                                                             *)
(***************************************************************************)
Digits == <<"0", "1", "2", "3", "4", "5", "6", "7", "8", "9">>

IsDigit(c) == \E d \in 1..Len(Digits) : Digits[d] = c

DigitValue(c) == (CHOOSE d \in 1..Len(Digits) : Digits[d] = c) - 1

IsSign(c) == c \in {"+", "-"}

\* strconv's lower(c): ASCII lower-casing of the letters the parsers look at.
lower(c) ==
    CASE c = "E" -> "e"
      [] c = "I" -> "i"
      [] c = "N" -> "n"
      [] c = "F" -> "f"
      [] c = "A" -> "a"
      [] c = "T" -> "t"
      [] c = "Y" -> "y"
      [] OTHER   -> c

\* s[from:] of Go, with 1-based from.
SliceFrom(s, from) == SubSeq(s, from, Len(s))

RECURSIVE StripLeadingZeros(_)
StripLeadingZeros(ds) ==
    IF ds # <<>> /\ Head(ds) = "0" THEN StripLeadingZeros(Tail(ds)) ELSE ds

\* Comparison of two digit strings of the same length: -1, 0 or 1.
RECURSIVE CompareDigits(_, _)
CompareDigits(a, b) ==
    IF a = <<>> THEN 0
    ELSE IF DigitValue(Head(a)) < DigitValue(Head(b)) THEN 0 - 1
    ELSE IF DigitValue(Head(a)) > DigitValue(Head(b)) THEN 1
    ELSE CompareDigits(Tail(a), Tail(b))

(***************************************************************************)
(* strconv.ParseInt(s, 10, 64): "ok", "syntax" (ErrSyntax) or "range"      *)
(* (ErrRange).  The magnitude is compared digit by digit with the cutoff   *)
(* 2^63, as 64-bit values do not fit the checker's integers.               *)
(***************************************************************************)
IntCutoff == <<"9", "2", "2", "3", "3", "7", "2", "0", "3", "6", "8", "5", "4", "7", "7", "5", "8", "0", "8">>

\* -1, 0, 1: the magnitude written by the digits ds against 2^63.
CompareToCutoff(ds) ==
    LET m == StripLeadingZeros(ds) IN
    IF Len(m) < Len(IntCutoff) THEN 0 - 1
    ELSE IF Len(m) > Len(IntCutoff) THEN 1
    ELSE CompareDigits(m, IntCutoff)

ParseInt(s) ==
    IF s = <<>> THEN "syntax"
    ELSE
        LET neg  == Head(s) = "-"
            body == IF IsSign(Head(s)) THEN Tail(s) ELSE s
        IN  IF body = <<>> THEN "syntax"
            ELSE IF \E i \in 1..Len(body) : ~IsDigit(body[i]) THEN "syntax"
            ELSE IF ~neg /\ CompareToCutoff(body) >= 0 THEN "range"
            ELSE IF neg /\ CompareToCutoff(body) > 0 THEN "range"
            ELSE "ok"

(***************************************************************************)
(* strconv.ParseFloat(s, 10): a bitSize other than 32 is parsed as 64 bit. *)
(* Decimal literals, underscores and the special values are modelled;      *)
(* hexadecimal floats need the characters x and p, which are not in Chars. *)
(***************************************************************************)
RECURSIVE commonPrefixLenIgnoreCase(_, _)
commonPrefixLenIgnoreCase(s, prefix) ==
    IF s = <<>> \/ prefix = <<>> THEN 0
    ELSE IF lower(Head(s)) = Head(prefix)
         THEN 1 + commonPrefixLenIgnoreCase(Tail(s), Tail(prefix))
         ELSE 0

Infinity == <<"i", "n", "f", "i", "n", "i", "t", "y">>

InfLen == 3

NaN == <<"n", "a", "n">>

\* special(s): the number of characters of s that spell a special value, 0 if none.
special(s) ==
    IF s = <<>> THEN 0
    ELSE IF IsSign(Head(s)) \/ lower(Head(s)) = "i"
    THEN LET nsign == IF IsSign(Head(s)) THEN 1 ELSE 0
             n0    == commonPrefixLenIgnoreCase(SliceFrom(s, nsign + 1), Infinity)
             n     == IF InfLen < n0 /\ n0 < Len(Infinity) THEN InfLen ELSE n0
         IN  IF n = InfLen \/ n = Len(Infinity) THEN nsign + n ELSE 0
    ELSE IF lower(Head(s)) = "n"
    THEN IF commonPrefixLenIgnoreCase(s, NaN) = Len(NaN) THEN Len(NaN) ELSE 0
    ELSE 0

\* underscoreOK(s) for a decimal literal: an underscore only between digits.
RECURSIVE underscoreScan(_, _)
underscoreScan(s, saw) ==
    IF s = <<>> THEN saw # "_"
    ELSE IF IsDigit(Head(s)) THEN underscoreScan(Tail(s), "0")
    ELSE IF Head(s) = "_" THEN saw = "0" /\ underscoreScan(Tail(s), "_")
    ELSE saw # "_" /\ underscoreScan(Tail(s), "!")

underscoreOK(s) ==
    underscoreScan(IF s # <<>> /\ IsSign(Head(s)) THEN Tail(s) ELSE s, "^")

\* The mantissa loop of readFloat from position i: where it stops and what it saw.
\* mant holds the digits from the first non-zero one on, dp the decimal point.
RECURSIVE scanMantissa(_, _, _)
scanMantissa(s, i, st) ==
    IF i > Len(s) THEN [st EXCEPT !.i = i]
    ELSE IF s[i] = "_" THEN scanMantissa(s, i + 1, [st EXCEPT !.underscores = TRUE])
    ELSE IF s[i] = "." THEN
        IF st.sawdot THEN [st EXCEPT !.i = i]
        ELSE scanMantissa(s, i + 1, [st EXCEPT !.sawdot = TRUE, !.dp = Len(st.mant)])
    ELSE IF IsDigit(s[i]) THEN
        IF s[i] = "0" /\ st.mant = <<>>
        THEN scanMantissa(s, i + 1, [st EXCEPT !.sawdigits = TRUE, !.dp = st.dp - 1])
        ELSE scanMantissa(s, i + 1, [st EXCEPT !.sawdigits = TRUE, !.mant = Append(st.mant, s[i])])
    ELSE [st EXCEPT !.i = i]

\* The cap readFloat puts on the exponent it accumulates.
ExpCap == 10000

\* The exponent digits loop of readFloat from position i: <<next position, e, underscores>>.
RECURSIVE scanExponent(_, _, _, _)
scanExponent(s, i, e, us) ==
    IF i <= Len(s) /\ (IsDigit(s[i]) \/ s[i] = "_")
    THEN IF s[i] = "_" THEN scanExponent(s, i + 1, e, TRUE)
         ELSE scanExponent(s, i + 1, IF e < ExpCap THEN e * 10 + DigitValue(s[i]) ELSE e, us)
    ELSE <<i, e, us>>

\* readFloat(s): ok, the number n of characters read, the mantissa digits and the
\* decimal exponent dp, the value being 0.mant * 10^dp.
readFloat(s) ==
    LET fail == [ok |-> FALSE, n |-> 0, mant |-> <<>>, dp |-> 0]
        i0   == IF s # <<>> /\ IsSign(Head(s)) THEN 2 ELSE 1
        m    == scanMantissa(s, i0, [i |-> i0, sawdot |-> FALSE, sawdigits |-> FALSE,
                                     underscores |-> FALSE, mant |-> <<>>, dp |-> 0])
        dp0  == IF m.sawdot THEN m.dp ELSE Len(m.mant)
    IN  IF s = <<>> \/ ~m.sawdigits THEN fail
        ELSE IF m.i <= Len(s) /\ lower(s[m.i]) = "e" THEN
            LET j  == m.i + 1
                k  == IF j <= Len(s) /\ IsSign(s[j]) THEN j + 1 ELSE j
                es == IF j <= Len(s) /\ s[j] = "-" THEN 0 - 1 ELSE 1
                x  == scanExponent(s, k, 0, m.underscores)
            IN  IF j > Len(s) THEN fail
                ELSE IF k > Len(s) \/ ~IsDigit(s[k]) THEN fail
                ELSE IF x[3] /\ ~underscoreOK(SubSeq(s, 1, x[1] - 1)) THEN fail
                ELSE [ok |-> TRUE, n |-> x[1] - 1, mant |-> m.mant, dp |-> dp0 + x[2] * es]
        ELSE IF m.underscores /\ ~underscoreOK(SubSeq(s, 1, m.i - 1)) THEN fail
        ELSE [ok |-> TRUE, n |-> m.i - 1, mant |-> m.mant, dp |-> dp0]

\* The largest decimal exponent of a finite float64 written 0.mant * 10^dp, and the
\* leading digits of 2^1024 - 2^970, from which on a value rounds to infinity.
MaxFloatExp == 309

FloatCutoff == <<"1", "7", "9", "7", "6", "9", "3", "1", "3", "4", "8", "6", "2", "3", "1", "5", "8", "0", "7", "9">>

RECURSIVE PadZeros(_, _)
PadZeros(ds, n) == IF Len(ds) >= n THEN SubSeq(ds, 1, n) ELSE PadZeros(Append(ds, "0"), n)

\* Whether 0.mant * 10^dp rounds to infinity (literals of at most Len(FloatCutoff)
\* significant digits).
FloatOverflows(mant, dp) ==
    /\ mant # <<>>
    /\ \/ dp > MaxFloatExp
       \/ dp = MaxFloatExp /\ CompareDigits(PadZeros(mant, Len(FloatCutoff)), FloatCutoff) > 0

ParseFloat(s) ==
    LET sp == special(s)
        r  == readFloat(s)
    IN  IF sp > 0 THEN (IF sp = Len(s) THEN "ok" ELSE "syntax")
        ELSE IF ~r.ok THEN "syntax"
        ELSE IF r.n # Len(s) THEN "syntax"
        ELSE IF FloatOverflows(r.mant, r.dp) THEN "range"
        ELSE "ok"

(***************************************************************************)
(* inferProbableTypeFromString: integer first, then float, else string.    *)
(***************************************************************************)
\* inferProbableTypeFromString with the two attempts in the other order.
inferProbableTypeFromString_FloatFirst(s) ==
    IF ParseFloat(s) # "ok"
    THEN IF ParseInt(s) # "ok" THEN FieldTypeString ELSE FieldTypeInteger
    ELSE FieldTypeFloat

inferProbableTypeFromString(s) ==
    IF ParseInt(s) # "ok"
    THEN IF ParseFloat(s) # "ok" THEN FieldTypeString ELSE FieldTypeFloat
    ELSE FieldTypeInteger

(***************************************************************************)
(* Bounds of the model and the inputs drawn within them.                   *)
(***************************************************************************)
\* The widest record the CSV lexer yields.
MaxCols == 2

\* The most cells the cache holds; a well-formed data row that would exceed it is
\* not read.
MaxCells == 4

RECURSIVE CellCount(_)
CellCount(rows) == IF rows = <<>> THEN 0 ELSE Len(Head(rows)) + CellCount(Tail(rows))

\* One literal per probe result: an integer, a float, a string.
CellLiterals == {<<"1", "0">>, <<"9", ".", "9", "9">>, <<"a", "b", "c">>}

HeaderLiterals == {<<"i", "d">>, <<"n">>}

\* The paths Import is called with, and those of them that name a readable file.
URIs == {"data/5m_sales_records.csv", "data/none.csv"}

ReadableFiles == {"data/5m_sales_records.csv"}

RECURSIVE Tuples(_, _)
Tuples(n, S) ==
    IF n = 0 THEN {<<>>}
    ELSE {Append(t, x) : t \in Tuples(n - 1, S), x \in S}

RecordsOver(S) == UNION {Tuples(n, S) : n \in 1..MaxCols}

\* The headers drawn: those whose neighbouring names differ.
HeaderRecords ==
    {h \in RecordsOver(HeaderLiterals) : \A i \in 1..(Len(h) - 1) : h[i] # h[i + 1]}

(***************************************************************************)
(* The collaborators: os.Open and encoding/csv's Reader.                   *)
(***************************************************************************)
EOF == "EOF"

NoError == "nil"

\* What os.Open fails with on a path that names no readable file.
ENOENT == "ENOENT"

osOpen(uri) == IF uri \in ReadableFiles THEN NoError ELSE ENOENT

\* What the CSV lexer rejects a malformed line with.
LexErrors == {"ErrQuote"}

ErrFieldCount == "ErrFieldCount"

\* What the lexer finds next in the file: the end, a malformed line, or a record.
LexEOF == [kind |-> "eof"]

LexBad(cause) == [kind |-> "bad", cause |-> cause]

LexRecord(fields) == [kind |-> "record", fields |-> fields]

\* csvRead of a reader whose FieldsPerRecord is negative: no check of the width.
csvRead_AnyWidth(item, fpr) ==
    IF item.kind = "eof" THEN [record |-> <<>>, err |-> EOF, fpr |-> fpr]
    ELSE IF item.kind = "bad" THEN [record |-> <<>>, err |-> item.cause, fpr |-> fpr]
    ELSE [record |-> item.fields, err |-> NoError, fpr |-> Len(item.fields)]

\* csv.Reader.Read with the default FieldsPerRecord: 0 takes the width of the
\* first record, which every later record must have.
csvRead(item, fpr) ==
    IF item.kind = "eof" THEN [record |-> <<>>, err |-> EOF, fpr |-> fpr]
    ELSE IF item.kind = "bad" THEN [record |-> <<>>, err |-> item.cause, fpr |-> fpr]
    ELSE IF fpr > 0 THEN
        [record |-> item.fields,
         err |-> IF Len(item.fields) # fpr THEN ErrFieldCount ELSE NoError,
         fpr |-> fpr]
    ELSE [record |-> item.fields, err |-> NoError, fpr |-> Len(item.fields)]

(***************************************************************************)
(* Errors as Import builds them: the message, the URI formatted into it    *)
(* and the error wrapped with %w (NoError when the format has no %w).      *)
(***************************************************************************)
Errorf(msg, uri, wrapped) == [msg |-> msg, uri |-> uri, wrapped |-> wrapped]

OpenMsg == "could not open file"

HeaderEOFMsg == "unexpected end of file while reading CSV file header from"

ParseMsg == "could not parse CSV file"

OpenError(uri, cause) == Errorf(OpenMsg, uri, cause)

HeaderEOFError(uri, cause) == Errorf(HeaderEOFMsg, uri, NoError)

ParseError(uri, cause) == Errorf(ParseMsg, uri, cause)

\* The nil error of a successful call, and the value of a call that has not
\* returned, written as records like the errors.
Nil == Errorf(NoError, "", NoError)

Pending == Errorf("pending", "", NoError)

(***************************************************************************)
(* State.                                                                  *)
(***************************************************************************)
VARIABLES
    FieldNames,       \* c.FieldNames
    FieldTypes,       \* c.FieldTypes
    FieldData,        \* c.FieldData
    pc,               \* where Import stands: "idle", "read" (line 85), "cell" (line 94)
    URI,              \* the argument of the current (or last) Import call
    fieldsPerRecord,  \* csvReader.FieldsPerRecord
    record,           \* the record of the current iteration
    column,           \* the index of the range loop over record (from 1)
    fieldData,        \* the row under construction
    ret,              \* what the last Import call returned, Pending before
    source,           \* history: the records the reader yielded in this call
    cause,            \* history: the error os.Open or Read gave Import, NoError if none
    fresh,            \* history: the cache was as New made it when this call began
    base              \* history: the number of rows the cache held when this call began

cache == <<FieldNames, FieldTypes, FieldData>>

local == <<fieldsPerRecord, record, column, fieldData>>

history == <<source, cause, fresh, base>>

vars == <<FieldNames, FieldTypes, FieldData, pc, URI, fieldsPerRecord, record,
          column, fieldData, ret, source, cause, fresh, base>>

\* New(): no field names, no field types, an empty row store.
New == [FieldNames |-> <<>>, FieldTypes |-> <<>>, FieldData |-> <<>>]

Init ==
    /\ FieldNames = New.FieldNames
    /\ FieldTypes = New.FieldTypes
    /\ FieldData = New.FieldData
    /\ pc = "idle"
    /\ URI = ""
    /\ fieldsPerRecord = 0
    /\ record = <<>>
    /\ column = 0
    /\ fieldData = <<>>
    /\ ret = Pending
    /\ source = <<>>
    /\ cause = NoError
    /\ fresh = TRUE
    /\ base = 0

(***************************************************************************)
(* Import, step by step.                                                   *)
(***************************************************************************)
\* SeedFieldTypes without the seeding loop: make's zero values.
SeedFieldTypes_Unseeded(names) == [fieldIndex \in 1..Len(names) |-> FieldTypeUnknown]

\* make([]FieldType, n) and the seeding loop of lines 75-78.
SeedFieldTypes(names) == [fieldIndex \in 1..Len(names) |-> FieldTypeInteger]

\* Import is called: what the history variables keep of the cache it finds.
Called(uri) ==
    /\ pc = "idle"
    /\ URI' = uri
    /\ fresh' = (cache = <<New.FieldNames, New.FieldTypes, New.FieldData>>)
    /\ base' = Len(FieldData)

\* ImportOpenFails with the row store emptied before the file is opened.
ImportOpenFails_Resets(uri) ==
    /\ Called(uri)
    /\ osOpen(uri) # NoError
    /\ ret' = OpenError(uri, osOpen(uri))
    /\ source' = <<>>
    /\ cause' = osOpen(uri)
    /\ FieldData' = <<>>
    /\ UNCHANGED <<FieldNames, FieldTypes, pc, local>>

\* Lines 52-57: Import is called and os.Open fails.
ImportOpenFails(uri) ==
    /\ Called(uri)
    /\ osOpen(uri) # NoError
    /\ ret' = OpenError(uri, osOpen(uri))
    /\ source' = <<>>
    /\ cause' = osOpen(uri)
    /\ UNCHANGED <<cache, pc, local>>

\* ImportCall with the header record assigned to the field names before the
\* error of the read is looked at.
ImportCall_AssignsFirst(uri, item) ==
    /\ Called(uri)
    /\ osOpen(uri) = NoError
    /\ UNCHANGED <<record, column, fieldData>>
    /\ LET r == csvRead(item, 0) IN
            /\ cause' = r.err
            /\ FieldNames' = r.record
            /\ IF r.err = EOF THEN
                    /\ ret' = HeaderEOFError(uri, r.err)
                    /\ source' = <<>>
                    /\ UNCHANGED <<FieldTypes, FieldData, pc, fieldsPerRecord>>
               ELSE IF r.err # NoError THEN
                    /\ ret' = ParseError(uri, r.err)
                    /\ source' = <<>>
                    /\ UNCHANGED <<FieldTypes, FieldData, pc, fieldsPerRecord>>
               ELSE
                    /\ FieldTypes' = SeedFieldTypes(r.record)
                    /\ fieldsPerRecord' = r.fpr
                    /\ source' = <<r.record>>
                    /\ ret' = Pending
                    /\ pc' = "read"
                    /\ UNCHANGED FieldData

\* Lines 52-78: Import is called, the file opens and the reader is asked for the
\* header, whose fields name and seed the fields.
ImportCall(uri, item) ==
    /\ Called(uri)
    /\ osOpen(uri) = NoError
    /\ UNCHANGED <<record, column, fieldData>>
    /\ LET r == csvRead(item, 0) IN
            /\ cause' = r.err
            /\ IF r.err = EOF THEN
                    /\ ret' = HeaderEOFError(uri, r.err)
                    /\ source' = <<>>
                    /\ UNCHANGED <<cache, pc, fieldsPerRecord>>
               ELSE IF r.err # NoError THEN
                    /\ ret' = ParseError(uri, r.err)
                    /\ source' = <<>>
                    /\ UNCHANGED <<cache, pc, fieldsPerRecord>>
               ELSE
                    /\ FieldNames' = r.record
                    /\ FieldTypes' = SeedFieldTypes(r.record)
                    /\ fieldsPerRecord' = r.fpr
                    /\ source' = <<r.record>>
                    /\ ret' = Pending
                    /\ pc' = "read"
                    /\ UNCHANGED FieldData

\* make([]string, n): n empty strings.
MakeStrings(n) == [i \in 1..n |-> <<>>]

\* Import returns: its reader and loop variables are gone.
Returned ==
    /\ pc' = "idle"
    /\ fieldsPerRecord' = 0
    /\ record' = <<>>
    /\ column' = 0
    /\ fieldData' = <<>>

\* Lines 85-93 and 122-130: the next record is read; at the end of the file Import
\* returns nil, on an error it returns it, else the row's cells are gone through.
ReadRecord(item) ==
    /\ pc = "read"
    /\ LET r == csvRead(item, fieldsPerRecord) IN
        IF r.err = EOF THEN
            /\ ret' = Nil
            /\ cause' = NoError
            /\ Returned
            /\ UNCHANGED <<cache, URI, source, fresh, base>>
        ELSE IF r.err # NoError THEN
            /\ ret' = ParseError(URI, r.err)
            /\ cause' = r.err
            /\ Returned
            /\ UNCHANGED <<cache, URI, source, fresh, base>>
        ELSE
            /\ CellCount(FieldData) + Len(r.record) <= MaxCells
            /\ record' = r.record
            /\ fieldData' = MakeStrings(Len(r.record))
            /\ column' = 1
            /\ source' = Append(source, r.record)
            /\ pc' = "cell"
            /\ UNCHANGED <<cache, URI, fieldsPerRecord, ret, cause, fresh, base>>

\* NextFieldType with the Float case taking the probe's answer as the Integer case does.
NextFieldType_FloatReprobed(current, stringValue) ==
    CASE current = FieldTypeString -> current
      [] OTHER -> inferProbableTypeFromString(stringValue)

\* NextFieldType with the String case probing the cell like the others.
NextFieldType_StringReprobed(current, stringValue) ==
    CASE current = FieldTypeFloat ->
            IF inferProbableTypeFromString(stringValue) = FieldTypeString
            THEN FieldTypeString
            ELSE current
      [] OTHER -> inferProbableTypeFromString(stringValue)

\* The switch of lines 95-116: the type of a field after one more cell.
NextFieldType(current, stringValue) ==
    CASE current = FieldTypeUnknown -> inferProbableTypeFromString(stringValue)
      [] current = FieldTypeString  -> current
      [] current = FieldTypeInteger -> inferProbableTypeFromString(stringValue)
      [] current = FieldTypeFloat   ->
            IF inferProbableTypeFromString(stringValue) = FieldTypeString
            THEN FieldTypeString
            ELSE current

\* StoredValue with a float cell cut down to its first digit.
StoredValue_Converted(stringValue) ==
    IF inferProbableTypeFromString(stringValue) = FieldTypeFloat
    THEN SubSeq(stringValue, 1, 1)
    ELSE stringValue

\* Line 117: the cell is stored as it was read.
StoredValue(stringValue) == stringValue

\* Lines 94-118: one iteration of the loop over the record's cells.
ProcessCell ==
    /\ pc = "cell"
    /\ column <= Len(record)
    /\ FieldTypes' = [FieldTypes EXCEPT ![column] = NextFieldType(@, record[column])]
    /\ fieldData' = [fieldData EXCEPT ![column] = StoredValue(record[column])]
    /\ column' = column + 1
    /\ UNCHANGED <<FieldNames, FieldData, pc, URI, fieldsPerRecord, record, ret, history>>

\* AppendedRows putting the new row first.
AppendedRows_Prepends(rows, row) == <<row>> \o rows

\* append(c.FieldData, fieldData)
AppendedRows(rows, row) == Append(rows, row)

\* Line 119: the row is appended to the row store.
AppendRow ==
    /\ pc = "cell"
    /\ column > Len(record)
    /\ FieldData' = AppendedRows(FieldData, fieldData)
    /\ record' = <<>>
    /\ column' = 0
    /\ fieldData' = <<>>
    /\ pc' = "read"
    /\ UNCHANGED <<FieldNames, FieldTypes, URI, fieldsPerRecord, ret, history>>

HeaderItems == {LexEOF} \cup {LexBad(e) : e \in LexErrors}
                        \cup {LexRecord(f) : f \in HeaderRecords}

DataItems == {LexEOF} \cup {LexBad(e) : e \in LexErrors}
                      \cup {LexRecord(f) : f \in RecordsOver(CellLiterals)}

Next ==
    \/ \E uri \in URIs : ImportOpenFails(uri)
    \/ \E uri \in URIs, item \in HeaderItems : ImportCall(uri, item)
    \/ \E item \in DataItems : ReadRecord(item)
    \/ ProcessCell
    \/ AppendRow

Spec == Init /\ [][Next]_vars

(***************************************************************************)
(* The probe at work: Import of a readable file of one column, whose cells *)
(* are drawn from literals at and around the edges of the two parsers.     *)
(***************************************************************************)
\* The most data rows of such a file.
MaxProbeRows == 1

ProbeLiterals ==
    {<<"0">>,
     <<"1", "0">>,
     <<"-", "7">>,
     <<"+", "3">>,
     <<"0", "0", "7">>,
     <<"9", "2", "2", "3", "3", "7", "2", "0", "3", "6", "8", "5", "4", "7", "7", "5", "8", "0", "7">>,
     <<"9", "2", "2", "3", "3", "7", "2", "0", "3", "6", "8", "5", "4", "7", "7", "5", "8", "0", "8">>,
     <<"-", "9", "2", "2", "3", "3", "7", "2", "0", "3", "6", "8", "5", "4", "7", "7", "5", "8", "0", "8">>,
     <<"-", "9", "2", "2", "3", "3", "7", "2", "0", "3", "6", "8", "5", "4", "7", "7", "5", "8", "0", "9">>,
     <<"9", ".", "9", "9">>,
     <<".", "5">>,
     <<"5", ".">>,
     <<"1", "e", "5">>,
     <<"1", "E", "-", "5">>,
     <<"-", "1", ".", "5", "e", "+", "3">>,
     <<"1", "_", "0">>,
     <<"i", "n", "f">>,
     <<"-", "I", "n", "f">>,
     <<"I", "n", "f", "i", "n", "i", "t", "y">>,
     <<"N", "a", "N">>,
     <<"1", "e", "3", "0", "8">>,
     <<"1", "e", "3", "0", "9">>,
     <<"1", ".", "8", "e", "3", "0", "8">>,
     <<>>,
     <<"a", "b", "c">>,
     <<"-">>,
     <<".">>,
     <<"1", "e">>,
     <<"e", "5">>,
     <<" ", "1">>,
     <<"1", " ">>,
     <<"1", ".", "2", ".", "3">>,
     <<"_", "1", "0">>,
     <<"+", "n", "a", "n">>,
     <<"i", "n", "f", "i">>}

ProbeHeader == <<<<"n">>>>

\* Import is called once, on the cache New made.
ProbeImport(uri) == ret = Pending /\ ImportCall(uri, LexRecord(ProbeHeader))

ProbeRead(item) ==
    /\ item.kind = "record" => Len(FieldData) < MaxProbeRows
    /\ ReadRecord(item)

ProbeItems == {LexEOF} \cup {LexRecord(<<s>>) : s \in ProbeLiterals}

ProbeNext ==
    \/ \E uri \in ReadableFiles : ProbeImport(uri)
    \/ \E item \in ProbeItems : ProbeRead(item)
    \/ ProcessCell
    \/ AppendRow

ProbeSpec == Init /\ [][ProbeNext]_vars

(***************************************************************************)
(* What the properties speak of.                                           *)
(***************************************************************************)
\* The widening order Integer < Float < String (Unknown below them all).
Rank(t) ==
    CASE t = FieldTypeInteger -> 1
      [] t = FieldTypeFloat   -> 2
      [] t = FieldTypeString  -> 3
      [] OTHER                -> 0

ScalarTypes == {FieldTypeInteger, FieldTypeFloat, FieldTypeString}

\* The last Import call returned nil; it returned an error.
Succeeded == pc = "idle" /\ ret = Nil

Failed == pc = "idle" /\ ret \notin {Nil, Pending}

\* The data rows the source of this call yielded (its first record is the header).
DataRows == Tail(source)

\* The probe results of column i of the data rows.
ColumnProbes(i) == {inferProbableTypeFromString(DataRows[k][i]) : k \in 1..Len(DataRows)}

\* Every probe result in P is t or narrower.
Covers(t, P) == \A p \in P : Rank(p) <= Rank(t)

\* A data row failed to parse: the header was read, and a later Read gave an error.
DataRowFailed == pc = "idle" /\ source # <<>> /\ cause \in LexErrors \cup {ErrFieldCount}

(***************************************************************************)
(* C1: after a successful Import on a freshly created cache, the type of   *)
(* every column is the most specific of Integer < Float < String that      *)
(* covers the probe result of every cell of the column.                    *)
(***************************************************************************)
C1_MostSpecificCoveringType ==
    (Succeeded /\ fresh) =>
        /\ Len(FieldTypes) = Len(source[1])
        /\ \A i \in 1..Len(FieldTypes) :
            /\ FieldTypes[i] \in ScalarTypes
            /\ Covers(FieldTypes[i], ColumnProbes(i))
            /\ \A u \in ScalarTypes :
                Covers(u, ColumnProbes(i)) => Rank(FieldTypes[i]) <= Rank(u)

\* Scenario A's price column: a float cell, then an integer cell, typed Float,
\* beside a column typed otherwise.
C1_Witness ==
    /\ Succeeded /\ fresh
    /\ Len(DataRows) = 2 /\ Len(FieldTypes) = 2
    /\ inferProbableTypeFromString(DataRows[1][1]) = FieldTypeFloat
    /\ inferProbableTypeFromString(DataRows[2][1]) = FieldTypeInteger
    /\ FieldTypes[1] = FieldTypeFloat
    /\ FieldTypes[2] = FieldTypeString

(***************************************************************************)
(* C2: during one Import pass the type of a field only widens along        *)
(* Integer < Float < String; no step of the pass narrows it, and a String  *)
(* field stays String.                                                     *)
(***************************************************************************)
C2_WidensWithinPass ==
    [][pc # "idle" =>
        /\ DOMAIN FieldTypes' = DOMAIN FieldTypes
        /\ \A i \in DOMAIN FieldTypes :
            /\ Rank(FieldTypes'[i]) >= Rank(FieldTypes[i])
            /\ FieldTypes[i] = FieldTypeString => FieldTypes'[i] = FieldTypeString]_vars

\* A column that became String at its first row has had an integer cell since.
C2_Witness ==
    /\ pc = "read"
    /\ Len(DataRows) >= 2
    /\ inferProbableTypeFromString(DataRows[1][1]) = FieldTypeString
    /\ inferProbableTypeFromString(DataRows[2][1]) = FieldTypeInteger
    /\ FieldTypes[1] = FieldTypeString

(***************************************************************************)
(* C3: for the whole lifetime of a cache, a field type that has reached    *)
(* String is String in every later state, whatever is invoked on the cache.*)
(***************************************************************************)
C3_StringIsPermanent ==
    [][\A i \in DOMAIN FieldTypes :
        FieldTypes[i] = FieldTypeString =>
            i \in DOMAIN FieldTypes' /\ FieldTypes'[i] = FieldTypeString]_vars

(***************************************************************************)
(* C4: between Import calls, whatever their number and outcome, there are  *)
(* as many field types as field names, and every stored row has as many    *)
(* cells as there are field names.                                         *)
(***************************************************************************)
C4_AlignedLengths ==
    pc = "idle" =>
        /\ Len(FieldNames) = Len(FieldTypes)
        /\ \A k \in 1..Len(FieldData) : Len(FieldData[k]) = Len(FieldNames)

(***************************************************************************)
(* C5: whenever an Import call returns success, the cache holds as many    *)
(* rows as the source of that call has data rows.                          *)
(***************************************************************************)
C5_RowCountIsSourceRowCount ==
    Succeeded => Len(FieldData) = Len(DataRows)

(***************************************************************************)
(* C6: when a data row fails to parse after k rows parsed, Import returns  *)
(* a parse error and the cache holds exactly those k rows, in source order.*)
(***************************************************************************)
C6_ExactlyTheRowsBeforeTheFailure ==
    DataRowFailed =>
        /\ ret.msg = ParseMsg
        /\ FieldData = DataRows

(***************************************************************************)
(* C7: when the resource cannot be opened, Import returns an open error    *)
(* and field names, field types and rows are as they were before the call. *)
(***************************************************************************)
C7_OpenFailureLeavesCache ==
    [][(pc = "idle" /\ osOpen(URI') # NoError) =>
        /\ pc' = "idle"
        /\ ret'.msg = OpenMsg
        /\ cache' = cache]_vars

\* An open failure on a cache that an earlier call filled.
C7_Witness ==
    /\ Failed
    /\ osOpen(URI) # NoError
    /\ ret.msg = OpenMsg
    /\ FieldNames # <<>> /\ FieldData # <<>>

C9_ErrorsWrapCauseAndNameURI ==
    Failed =>
        /\ ret.uri = URI
        /\ cause # NoError
        /\ ret.wrapped = cause

(***************************************************************************)
(* C10: after a successful Import on a fresh cache, the field names are    *)
(* the header row in file order and the rows are the data rows in source   *)
(* order, every cell being the text of the source cell.                    *)
(***************************************************************************)
C10_StoredAsRead ==
    (Succeeded /\ fresh) =>
        /\ FieldNames = source[1]
        /\ FieldData = DataRows

\* Two different rows under a two-name header, an integer text kept in a column
\* typed Float.
C10_Witness ==
    /\ Succeeded /\ fresh
    /\ Len(FieldNames) = 2 /\ FieldNames[1] # FieldNames[2]
    /\ Len(FieldData) = 2 /\ FieldData[1] # FieldData[2]
    /\ FieldTypes[1] = FieldTypeFloat
    /\ inferProbableTypeFromString(FieldData[2][1]) = FieldTypeInteger

(***************************************************************************)
(* C11: for a source with a valid header and no data row, Import succeeds  *)
(* and there is one type per header field, each of them Integer.           *)
(***************************************************************************)
\* The reader gave the header and then the end of the input, without an error.
HeaderOnlySource == pc = "idle" /\ Len(source) = 1 /\ cause = NoError

C11_HeaderOnlyIsAllInteger ==
    HeaderOnlySource =>
        /\ ret = Nil
        /\ Len(FieldTypes) = Len(source[1])
        /\ \A i \in 1..Len(FieldTypes) :
            FieldTypes[i] = FieldTypeInteger /\ FieldTypes[i] # FieldTypeUnknown

\* A header of two fields and nothing else, read into a cache that held rows.
C11_Witness ==
    /\ HeaderOnlySource
    /\ Succeeded
    /\ Len(FieldNames) = 2
    /\ FieldData # <<>>

(***************************************************************************)
(* C13: every processed cell takes the type of its field to the entry of   *)
(* the transition table for (current type, probe result) and leaves the    *)
(* types of the other fields alone; no other step of a pass changes a type.*)
(***************************************************************************)
\* The transition table of the specification.
TransitionTable(current, probe) ==
    CASE current \in {FieldTypeUnknown, FieldTypeInteger} -> probe
      [] current = FieldTypeFloat ->
            IF probe = FieldTypeString THEN FieldTypeString ELSE FieldTypeFloat
      [] current = FieldTypeString -> FieldTypeString

C13_TransitionTable ==
    [][pc # "idle" =>
        IF pc = "cell" /\ column <= Len(record)
        THEN /\ DOMAIN FieldTypes' = DOMAIN FieldTypes
             /\ column \in DOMAIN FieldTypes
             /\ FieldTypes'[column] =
                    TransitionTable(FieldTypes[column],
                                    inferProbableTypeFromString(record[column]))
             /\ \A j \in DOMAIN FieldTypes \ {column} : FieldTypes'[j] = FieldTypes[j]
        ELSE FieldTypes' = FieldTypes]_vars

\* The first cell of a second row, an integer, has left its Float field Float, and
\* the String field beside it is not yet gone through.
C13_Witness ==
    /\ pc = "cell" /\ column = 2 /\ Len(record) = 2
    /\ Len(DataRows) = 2
    /\ inferProbableTypeFromString(DataRows[1][1]) = FieldTypeFloat
    /\ inferProbableTypeFromString(record[1]) = FieldTypeInteger
    /\ FieldTypes[1] = FieldTypeFloat
    /\ FieldTypes[2] = FieldTypeString

(***************************************************************************)
(* C14: the probe tries integer before float. A literal is Integer iff it  *)
(* is a base-10 signed integer within the signed 64-bit range; one that is *)
(* not (2^63 and -2^63-1 among them) is Float iff the float parser accepts *)
(* it, and String otherwise; a literal valid as both is Integer.           *)
(***************************************************************************)
\* An optional sign and then digits only, at least one.
DecimalInteger(s) ==
    LET body == IF s # <<>> /\ IsSign(Head(s)) THEN Tail(s) ELSE s
    IN  body # <<>> /\ \A i \in 1..Len(body) : IsDigit(body[i])

\* The magnitude after the sign is at most 2^63 - 1, or 2^63 under a minus sign.
InInt64Range(s) ==
    LET body == IF IsSign(Head(s)) THEN Tail(s) ELSE s
    IN  IF Head(s) = "-" THEN CompareToCutoff(body) <= 0 ELSE CompareToCutoff(body) < 0

Int64Literal(s) == DecimalInteger(s) /\ InInt64Range(s)

FloatLiteral(s) == ParseFloat(s) = "ok"

\* The first cell of the first data row has been through line 108, which gave its
\* seeded field the probe's answer.
FirstCellProbed == pc = "cell" /\ Len(source) = 2 /\ column = 2

C14_IntegerBeforeFloat ==
    FirstCellProbed =>
        LET s == record[1]
            t == FieldTypes[1]
        IN  /\ t = inferProbableTypeFromString(s)
            /\ t = FieldTypeInteger <=> Int64Literal(s)
            /\ t = FieldTypeFloat <=> (~Int64Literal(s) /\ FloatLiteral(s))
            /\ t = FieldTypeString <=> (~Int64Literal(s) /\ ~FloatLiteral(s))
            /\ (Int64Literal(s) /\ FloatLiteral(s)) => t = FieldTypeInteger
            /\ (DecimalInteger(s) /\ ~InInt64Range(s) /\ FloatLiteral(s)) => t = FieldTypeFloat

\* 2^63 has been probed: a decimal integer just outside the range, typed Float.
C14_Witness ==
    /\ FirstCellProbed
    /\ record[1] = IntCutoff
    /\ DecimalInteger(record[1]) /\ ~InInt64Range(record[1])
    /\ FieldTypes[1] = FieldTypeFloat

(***************************************************************************)
(* C15: once the header has been read no field type is Unknown: not in any *)
(* state of Import after the seeding, not in the cache Import leaves on    *)
(* any path past the header; so no cell meets an Unknown field and         *)
(* FIELD_TYPE_UNKNOWN is never reported.                                   *)
(***************************************************************************)
C15_NeverUnknown ==
    /\ \A i \in DOMAIN FieldTypes :
        /\ FieldTypes[i] \in ScalarTypes
        /\ fieldTypeString(FieldTypes[i]) # "FIELD_TYPE_UNKNOWN"
    /\ (pc # "idle" \/ source # <<>>) => Len(FieldTypes) = Len(source[1])
    /\ (pc = "cell" /\ column <= Len(record)) => FieldTypes[column] # FieldTypeUnknown

\* A cell is about to meet its field, seeded and not yet touched.
C15_Witness ==
    /\ pc = "cell" /\ column = 1
    /\ Len(source) = 2
    /\ FieldTypes[column] = FieldTypeInteger
    /\ Len(FieldTypes) = 2

(***************************************************************************)
(* C16: whenever a row has just been appended, and when the pass stops on  *)
(* a data row that fails to parse, the type of field i is the widest probe *)
(* result (Integer if there is none) over column i of the rows appended so *)
(* far in this pass, the failing row adding nothing; each processed cell   *)
(* makes its field's type the wider of that type and the cell's probe.     *)
(***************************************************************************)
\* The rows this pass has appended.
PassRows == SubSeq(FieldData, base + 1, Len(FieldData))

\* The narrowest of Integer < Float < String that covers every probe result in P.
Widest(P) ==
    CHOOSE t \in ScalarTypes :
        Covers(t, P) /\ \A u \in ScalarTypes : Covers(u, P) => Rank(t) <= Rank(u)

MaxType(t, u) == IF Rank(t) >= Rank(u) THEN t ELSE u

\* The types are the widest probes of the columns of the rows of this pass.
TypesAreWidestOfPassRows ==
    /\ Len(FieldTypes) = Len(FieldNames)
    /\ \A k \in 1..Len(PassRows) : Len(PassRows[k]) = Len(FieldTypes)
    /\ \A i \in 1..Len(FieldTypes) :
        FieldTypes[i] =
            Widest({inferProbableTypeFromString(PassRows[k][i]) : k \in 1..Len(PassRows)})

C16_TypeIsWidestOfAppendedRows ==
    /\ []((pc = "read" \/ DataRowFailed) => TypesAreWidestOfPassRows)
    /\ [][(pc = "cell" /\ column <= Len(record)) =>
            FieldTypes'[column] =
                MaxType(FieldTypes[column], inferProbableTypeFromString(record[column]))]_vars

\* A pass on a cache that held rows stops on a bad third row, after a float and
\* then an integer in its first column.
C16_Witness ==
    /\ DataRowFailed
    /\ base >= 1
    /\ Len(PassRows) = 2
    /\ inferProbableTypeFromString(PassRows[1][1]) = FieldTypeFloat
    /\ inferProbableTypeFromString(PassRows[2][1]) = FieldTypeInteger
    /\ FieldTypes[1] = FieldTypeFloat

(***************************************************************************)
(* The whole data loop as a function of the rows it reads: every cell of   *)
(* every row, in reading order, moves its field's type by NextFieldType.   *)
(***************************************************************************)
RECURSIVE TypesAfter(_, _)
TypesAfter(types, rows) ==
    IF rows = <<>> THEN types
    ELSE TypesAfter([i \in 1..Len(types) |-> NextFieldType(types[i], Head(rows)[i])],
                    Tail(rows))

\* The orderings of the members of a sequence.
Orderings(n) == {p \in [1..n -> 1..n] : \A i, j \in 1..n : p[i] = p[j] => i = j}
Reordered(rows, p) == [k \in 1..Len(rows) |-> rows[p[k]]]

(***************************************************************************)
(* C17: the inferred types do not depend on the order of the data rows: a  *)
(* successful Import of a source with the same header and the same data    *)
(* rows in any other order ends with the same FieldTypes.                  *)
(***************************************************************************)
C17_TypesIgnoreRowOrder ==
    Succeeded =>
        /\ FieldTypes = TypesAfter(SeedFieldTypes(source[1]), DataRows)
        /\ \A p \in Orderings(Len(DataRows)) :
            TypesAfter(SeedFieldTypes(source[1]), Reordered(DataRows, p)) = FieldTypes

\* A source whose rows probe, in order, as a float, an integer and a string has
\* been imported.
C17_Witness ==
    /\ Succeeded
    /\ Len(DataRows) = 3
    /\ inferProbableTypeFromString(DataRows[1][1]) = FieldTypeFloat
    /\ inferProbableTypeFromString(DataRows[2][1]) = FieldTypeInteger
    /\ inferProbableTypeFromString(DataRows[3][1]) = FieldTypeString
    /\ FieldTypes[1] = FieldTypeString

(***************************************************************************)
(* C18: an Import call on a cache that already holds data from an earlier  *)
(* Import, once its header is read, replaces FieldNames with the new       *)
(* header and seeds every FieldTypes entry to Integer, leaves every row    *)
(* stored before untouched and appends the new rows after them; a call     *)
(* that fails at open or at the header read leaves FieldNames, FieldTypes  *)
(* and FieldData as they were.                                             *)
(***************************************************************************)
IsPrefix(s, t) == Len(s) <= Len(t) /\ SubSeq(t, 1, Len(s)) = s

C18_ReimportReplacesHeaderKeepsRows ==
    /\ []((~fresh /\ pc = "idle" /\ source # <<>>) =>
            /\ PassRows = DataRows
            /\ Len(FieldData) = base + Len(DataRows))
    /\ [][~fresh' =>
            /\ (pc = "idle" /\ pc' = "read") =>
                /\ FieldNames' = source'[1]
                /\ FieldTypes' = [i \in 1..Len(source'[1]) |-> FieldTypeInteger]
                /\ FieldData' = FieldData
            /\ (pc = "idle" /\ pc' = "idle") => cache' = cache
            /\ IsPrefix(FieldData, FieldData')]_vars

\* A second Import has returned with its row stored after the row of an earlier
\* Import whose header had another number of fields.
C18_Witness ==
    /\ Succeeded
    /\ ~fresh
    /\ base >= 1
    /\ Len(FieldData) > base
    /\ Len(FieldData[1]) # Len(FieldNames)
    /\ FieldData[Len(FieldData)] = source[Len(source)]

(***************************************************************************)
(* C19: within one Import pass a data row whose number of fields differs   *)
(* from the header's is never processed or appended: the reader reports it *)
(* as a field-count error and Import returns a parse error with the cache  *)
(* as it was, so the column used to index FieldTypes is always one of its  *)
(* indexes.                                                                *)
(***************************************************************************)
\* The records the reader can be handed whose width is not the header's.
MisalignedItems ==
    {item \in DataItems : item.kind = "record" /\ Len(item.fields) # Len(FieldNames)}

C19_MisalignedRowNeverProcessed ==
    /\ [](/\ pc = "read" =>
                /\ fieldsPerRecord = Len(FieldNames)
                /\ \A item \in MisalignedItems :
                    csvRead(item, fieldsPerRecord).err = ErrFieldCount
          /\ pc = "cell" =>
                /\ Len(record) = Len(FieldNames)
                /\ Len(fieldData) = Len(FieldTypes)
                /\ column \in 1..(Len(record) + 1)
                /\ column <= Len(record) => column \in DOMAIN FieldTypes
          /\ pc # "idle" => \A k \in 1..Len(PassRows) : Len(PassRows[k]) = Len(FieldNames))
    /\ [][/\ (pc = "read" /\ pc' = "cell") => Len(record') = Len(FieldTypes)
          /\ (pc = "read" /\ cause' = ErrFieldCount) =>
                /\ pc' = "idle"
                /\ ret'.msg = ParseMsg
                /\ ret'.wrapped = ErrFieldCount
                /\ cache' = cache
                /\ source' = source]_vars

\* A pass that had appended a row has been stopped by a row of another width.
C19_Witness ==
    /\ Failed
    /\ cause = ErrFieldCount
    /\ ret.msg = ParseMsg
    /\ Len(PassRows) >= 1
    /\ \A k \in 1..Len(PassRows) : Len(PassRows[k]) = Len(FieldNames)

====
